---- MODULE Spec2Model ----
(***************************************************************************)
(* Model of the runtime models of the MLN backend emulator                 *)
(* (mln/models/dynamic.py, mln/models/static.py): the inventory table and  *)
(* Profile.add_inv_item / remove_inv_item / use_blueprint, and the vote    *)
(* regeneration of Profile.update_available_votes.                         *)
(*                                                                         *)
(* The inventory table is a set of rows [id, owner, item, qty]; id is the  *)
(* primary key the database hands out.  Every ORM call (get, save, delete, *)
(* create, filter().exists()) is one statement that commits on its own:    *)
(* the methods open no transaction and take no row lock.                   *)
(***************************************************************************)
EXTENDS Integers, Sequences, FiniteSets, TLC

VARIABLES
    inventory,              \* InventoryStack table: set of rows
    nextId,                 \* next primary key of the InventoryStack table
    blueprint_info,         \* BlueprintInfo table: set of [item, build]
    requirements,           \* BlueprintRequirement table, in query order
    res,                    \* what the last finished call did (its arguments and outcome)
    rank,                   \* Profile.rank
    available_votes,        \* Profile.available_votes
    last_vote_update_time,  \* Profile.last_vote_update_time
    clock,                  \* the wall clock read by now()
    start_votes,            \* available_votes when the profile was created
    start_time,             \* last_vote_update_time when the profile was created
    capped,                 \* some update so far was cut off by max_votes
    pc,                     \* per request: the statement it executes next
    call,                   \* per request: the call it serves
    local,                  \* per request: the local variables of the method
    inv0,                   \* the inventory table at the start
    messages,               \* Message table: set of rows
    attachments,            \* Attachment table: set of rows
    nextMsgId,              \* next primary key of the Message table
    nextAttId,              \* next primary key of the Attachment table
    friendships,            \* Friendship table: set of rows
    nextEdgeId              \* next primary key of the Friendship table

vars == <<inventory, nextId, blueprint_info, requirements, res, rank,
          available_votes, last_vote_update_time, clock, start_votes,
          start_time, capped, pc, call, local, inv0, messages, attachments,
          nextMsgId, nextAttId, friendships, nextEdgeId>>

invVars == <<inventory, nextId, blueprint_info, requirements>>
voteVars == <<rank, available_votes, last_vote_update_time, clock,
              start_votes, start_time, capped>>
procVars == <<pc, call, local, inv0>>
mailVars == <<messages, attachments, nextMsgId, nextAttId>>
friendVars == <<friendships, nextEdgeId>>

----------------------------------------------------------------------------
(* Bounds of the model *)

MaxStack == 3       \* largest quantity a stack is let grow to
MaxId == 2          \* rows the table creates after the start
MaxReqs == 2        \* longest requirement list of a blueprint
MaxReqQty == 2      \* largest quantity of one requirement
MaxNegQty == 1      \* qty arguments go down to -MaxNegQty
MaxQty == 2         \* largest qty argument tried
MaxMsgs == 1        \* messages sent in one run
MaxEdges == 2       \* friendship rows created in one run

Users == {"u1", "u2"}
Items == {"bp", "x", "y"}
Materials == {"x", "y"}
Qtys == (0 - MaxNegQty)..MaxQty

----------------------------------------------------------------------------
(* The ORM statements *)

Matching(inv, o, i) == {r \in inv : r.owner = o /\ r.item = i}

\* user.inventory.get(item_id=i)
Get(inv, o, i) ==
    LET m == Matching(inv, o, i) IN
    IF m = {} THEN [status |-> "DoesNotExist"]
    ELSE IF Cardinality(m) = 1
         THEN [status |-> "ok", row |-> CHOOSE r \in m : TRUE]
         ELSE [status |-> "MultipleObjectsReturned"]

\* qty is a PositiveSmallIntegerField: the database refuses a negative value
QtyAllowed(q) == q >= 0

\* stack.save(): UPDATE the row with this primary key, INSERT it when no row matched
Save(inv, row) == {r \in inv : r.id # row.id} \cup {row}

\* stack.delete(): DELETE the row with this primary key (silently none when it is gone)
Delete(inv, row) == {r \in inv : r.id # row.id}

\* InventoryStack.objects.create(item_id=i, qty=q, owner=o)
Create(inv, nid, o, i, q) ==
    inv \cup {[id |-> nid, owner |-> o, item |-> i, qty |-> q]}

\* user.inventory.filter(item_id=i).exists()
Exists(inv, o, i) == Matching(inv, o, i) # {}

\* user.inventory.filter(item_id=i, qty__gte=q).exists()
ExistsGte(inv, o, i, q) == \E r \in Matching(inv, o, i) : r.qty >= q

----------------------------------------------------------------------------
(* Profile.add_inv_item: result is the table, the key counter and the      *)
(* exception raised ("none" when the call returns).                        *)

\* add_inv_item with "stack.qty = qty" where the code has "stack.qty += qty"
add_inv_item_adds_one(inv, nid, o, i, q) ==
    LET g == Get(inv, o, i) IN
    IF g.status = "ok"
    THEN [inv |-> Save(inv, [g.row EXCEPT !.qty = g.row.qty + 1]),
          nid |-> nid, exc |-> "none"]
    ELSE IF g.status = "DoesNotExist"
    THEN [inv |-> Create(inv, nid, o, i, 1), nid |-> nid + 1, exc |-> "none"]
    ELSE [inv |-> inv, nid |-> nid, exc |-> g.status]

add_inv_item_overwrites(inv, nid, o, i, q) ==
    LET g == Get(inv, o, i) IN
    IF g.status = "ok"
    THEN IF QtyAllowed(q)
         THEN [inv |-> Save(inv, [g.row EXCEPT !.qty = q]),
               nid |-> nid, exc |-> "none"]
         ELSE [inv |-> inv, nid |-> nid, exc |-> "IntegrityError"]
    ELSE IF g.status = "DoesNotExist"
    THEN IF QtyAllowed(q)
         THEN [inv |-> Create(inv, nid, o, i, q), nid |-> nid + 1, exc |-> "none"]
         ELSE [inv |-> inv, nid |-> nid, exc |-> "IntegrityError"]
    ELSE [inv |-> inv, nid |-> nid, exc |-> g.status]

add_inv_item(inv, nid, o, i, q) ==
    LET g == Get(inv, o, i) IN
    IF g.status = "ok"
    THEN IF QtyAllowed(g.row.qty + q)
         THEN [inv |-> Save(inv, [g.row EXCEPT !.qty = g.row.qty + q]),
               nid |-> nid, exc |-> "none"]
         ELSE [inv |-> inv, nid |-> nid, exc |-> "IntegrityError"]
    ELSE IF g.status = "DoesNotExist"
    THEN IF QtyAllowed(q)
         THEN [inv |-> Create(inv, nid, o, i, q), nid |-> nid + 1, exc |-> "none"]
         ELSE [inv |-> inv, nid |-> nid, exc |-> "IntegrityError"]
    ELSE [inv |-> inv, nid |-> nid, exc |-> g.status]

\* remove_inv_item with "stack.qty >= qty" where the code has "stack.qty > qty"
remove_inv_item_keeps_empty(inv, nid, o, i, q) ==
    LET g == Get(inv, o, i) IN
    IF g.status # "ok"
    THEN [inv |-> inv, nid |-> nid, exc |-> g.status]
    ELSE IF g.row.qty >= q
    THEN [inv |-> Save(inv, [g.row EXCEPT !.qty = g.row.qty - q]),
          nid |-> nid, exc |-> "none"]
    ELSE [inv |-> inv, nid |-> nid, exc |-> "ValueError"]

\* remove_inv_item without the branch "elif stack.qty == qty: stack.delete()"
remove_inv_item_never_deletes(inv, nid, o, i, q) ==
    LET g == Get(inv, o, i) IN
    IF g.status # "ok"
    THEN [inv |-> inv, nid |-> nid, exc |-> g.status]
    ELSE IF g.row.qty > q
    THEN [inv |-> Save(inv, [g.row EXCEPT !.qty = g.row.qty - q]),
          nid |-> nid, exc |-> "none"]
    ELSE [inv |-> inv, nid |-> nid, exc |-> "ValueError"]

(* Profile.remove_inv_item *)
remove_inv_item(inv, nid, o, i, q) ==
    LET g == Get(inv, o, i) IN
    IF g.status # "ok"
    THEN [inv |-> inv, nid |-> nid, exc |-> g.status]
    ELSE IF g.row.qty > q
    THEN [inv |-> Save(inv, [g.row EXCEPT !.qty = g.row.qty - q]),
          nid |-> nid, exc |-> "none"]
    ELSE IF g.row.qty = q
    THEN [inv |-> Delete(inv, g.row), nid |-> nid, exc |-> "none"]
    ELSE [inv |-> inv, nid |-> nid, exc |-> "ValueError"]

----------------------------------------------------------------------------
(* Profile.use_blueprint *)

\* BlueprintRequirement.objects.filter(blueprint_item_id=bp)
RequirementsOf(reqs, bp) == SelectSeq(reqs, LAMBDA r : r.blueprint_item = bp)

\* the loop "verify that requirements are met"
RequirementsMet(inv, o, rs) ==
    \A k \in 1..Len(rs) : ExistsGte(inv, o, rs[k].item, rs[k].qty)

\* the loop "remove required items", from requirement k on; it stops at the
\* first remove_inv_item that raises and keeps what the earlier ones wrote
RECURSIVE RemoveRequired(_, _, _, _, _)
RemoveRequired(inv, nid, o, rs, k) ==
    IF k > Len(rs)
    THEN [inv |-> inv, nid |-> nid, exc |-> "none", removed |-> Len(rs)]
    ELSE LET r == remove_inv_item(inv, nid, o, rs[k].item, rs[k].qty) IN
         IF r.exc # "none"
         THEN [inv |-> r.inv, nid |-> r.nid, exc |-> r.exc, removed |-> k - 1]
         ELSE RemoveRequired(r.inv, r.nid, o, rs, k + 1)

\* use_blueprint without the test that the blueprint is in the inventory
use_blueprint_unchecked(inv, nid, o, bp, infos, reqs) ==
    IF ~\E b \in infos : b.item = bp
    THEN [inv |-> inv, nid |-> nid, exc |-> "DoesNotExist", removed |-> 0]
    ELSE LET info == CHOOSE b \in infos : b.item = bp
             rs == RequirementsOf(reqs, bp)
         IN  IF ~RequirementsMet(inv, o, rs)
             THEN [inv |-> inv, nid |-> nid, exc |-> "RequirementsNotMet", removed |-> 0]
             ELSE LET rem == RemoveRequired(inv, nid, o, rs, 1) IN
                  IF rem.exc # "none"
                  THEN rem
                  ELSE LET a == add_inv_item(rem.inv, rem.nid, o, info.build, 1) IN
                       [inv |-> a.inv, nid |-> a.nid, exc |-> a.exc,
                        removed |-> rem.removed]

use_blueprint(inv, nid, o, bp, infos, reqs) ==
    IF ~Exists(inv, o, bp)
    THEN [inv |-> inv, nid |-> nid, exc |-> "BlueprintNotInInventory", removed |-> 0]
    ELSE IF ~\E b \in infos : b.item = bp
    THEN [inv |-> inv, nid |-> nid, exc |-> "DoesNotExist", removed |-> 0]
    ELSE LET info == CHOOSE b \in infos : b.item = bp
             rs == RequirementsOf(reqs, bp)
         IN  IF ~RequirementsMet(inv, o, rs)
             THEN [inv |-> inv, nid |-> nid, exc |-> "RequirementsNotMet", removed |-> 0]
             ELSE LET rem == RemoveRequired(inv, nid, o, rs, 1) IN
                  IF rem.exc # "none"
                  THEN rem
                  ELSE LET a == add_inv_item(rem.inv, rem.nid, o, info.build, 1) IN
                       [inv |-> a.inv, nid |-> a.nid, exc |-> a.exc,
                        removed |-> rem.removed]

----------------------------------------------------------------------------
(* Requests served one after the other *)

NoProcs == [p \in {} |-> 0]

\* the requirement lists a blueprint can have
ReqRows == [blueprint_item : {"bp"}, item : Materials, qty : 1..MaxReqQty]
ReqLists == UNION {[1..n -> ReqRows] : n \in 0..MaxReqs}

VotesIdle ==
    /\ rank = 0 /\ available_votes = 20 /\ last_vote_update_time = 0
    /\ clock = 0 /\ start_votes = 20 /\ start_time = 0 /\ capped = FALSE

ProcsIdle ==
    /\ pc = NoProcs /\ call = NoProcs /\ local = NoProcs

MailIdle ==
    /\ messages = {} /\ attachments = {} /\ nextMsgId = 1 /\ nextAttId = 1

FriendsIdle ==
    /\ friendships = {} /\ nextEdgeId = 1

Init ==
    /\ inventory = {}
    /\ nextId = 1
    /\ blueprint_info = {}
    /\ requirements = <<>>
    /\ res = [op |-> "none"]
    /\ VotesIdle
    /\ MailIdle
    /\ FriendsIdle
    /\ ProcsIdle
    /\ inv0 = {}

\* the units of item i that owner o holds, over all rows of the pair
RECURSIVE SumQty(_)
SumQty(rows) ==
    IF rows = {} THEN 0
    ELSE LET r == CHOOSE x \in rows : TRUE IN r.qty + SumQty(rows \ {r})

StackQty(inv, o, i) == SumQty(Matching(inv, o, i))

\* the quantities stay inside the model
Bounded(inv, nid) ==
    /\ nid <= Cardinality(inv0) + MaxId + 1
    /\ \A r \in inv : r.qty <= MaxStack

Add(o, i, q) ==
    LET r == add_inv_item(inventory, nextId, o, i, q) IN
    /\ Bounded(r.inv, r.nid)
    /\ inventory' = r.inv
    /\ nextId' = r.nid
    /\ res' = [op |-> "add", owner |-> o, item |-> i, qty |-> q, exc |-> r.exc,
               created |-> (~Exists(inventory, o, i) /\ r.exc = "none"),
               before |-> StackQty(inventory, o, i),
               follows |-> IF /\ res.op = "add" /\ res.exc = "none" /\ res.created
                              /\ res.owner = o /\ res.item = i
                           THEN res.qty ELSE 0]
    /\ UNCHANGED <<blueprint_info, requirements, voteVars, procVars, mailVars, friendVars>>

Remove(o, i, q) ==
    LET r == remove_inv_item(inventory, nextId, o, i, q) IN
    /\ Bounded(r.inv, r.nid)
    /\ inventory' = r.inv
    /\ nextId' = r.nid
    /\ res' = [op |-> "remove", owner |-> o, item |-> i, qty |-> q, exc |-> r.exc,
               existed |-> Exists(inventory, o, i),
               before |-> StackQty(inventory, o, i)]
    /\ UNCHANGED <<blueprint_info, requirements, voteVars, procVars, mailVars, friendVars>>

Craft(o, bp) ==
    LET r == use_blueprint(inventory, nextId, o, bp, blueprint_info, requirements) IN
    /\ Bounded(r.inv, r.nid)
    /\ inventory' = r.inv
    /\ nextId' = r.nid
    /\ res' = [op |-> "craft", owner |-> o, item |-> bp, exc |-> r.exc,
               removed |-> r.removed]
    /\ UNCHANGED <<blueprint_info, requirements, voteVars, procVars, mailVars, friendVars>>

Next ==
    \/ \E o \in Users, i \in Materials, q \in Qtys : Add(o, i, q)
    \/ \E o \in Users, i \in Materials, q \in Qtys : Remove(o, i, q)

Spec == Init /\ [][Next]_vars

\* C2: every stored stack has a quantity above zero and no (owner, item)
\* pair has two stacks.
StacksPositiveAndUnique ==
    /\ \A r \in inventory : r.qty > 0
    /\ \A r1, r2 \in inventory :
          (r1.owner = r2.owner /\ r1.item = r2.item) => r1 = r2

\* C3: an add of qty > 0 returns normally; on a missing stack it creates the
\* one stack of the pair with quantity qty, on an existing stack it adds qty
\* to it, and it touches no other row; when the call before it was the add of
\* q1 > 0 that created the stack, the pair has exactly one stack, of q1 + q2.
AddAccumulates ==
    [][(res'.op = "add" /\ res'.qty > 0) =>
        LET o == res'.owner
            i == res'.item
            q == res'.qty
            m == Matching(inventory, o, i)
            n == Matching(inventory', o, i)
        IN  /\ res'.exc = "none"
            /\ inventory' \ n = inventory \ m
            /\ Cardinality(n) = 1
            /\ m = {} => \A r \in n : r.qty = q /\ r.id = nextId
            /\ m # {} => n = {[r EXCEPT !.qty = r.qty + q] : r \in m}
            /\ (/\ res.op = "add" /\ res.exc = "none" /\ res.created /\ res.qty > 0
                /\ res.owner = o /\ res.item = i)
               => \A r \in n : r.qty = res.qty + q
      ]_vars

AddedTwice ==
    /\ res.op = "add" /\ res.exc = "none" /\ ~res.created
    /\ res.follows = 1 /\ res.qty = 2
    /\ \E r \in inventory :
          /\ Matching(inventory, res.owner, res.item) = {r}
          /\ r.qty = 3

\* C4: a remove of qty > 0 raises DoesNotExist when the pair has no stack,
\* subtracts qty when the stack holds more, deletes the stack when it holds
\* exactly qty, and raises ValueError, writing nothing, when it holds less.
RemoveCases ==
    [][(res'.op = "remove" /\ res'.qty > 0) =>
        LET o == res'.owner
            i == res'.item
            q == res'.qty
            m == Matching(inventory, o, i)
        IN  /\ m = {} => res'.exc = "DoesNotExist" /\ inventory' = inventory
            /\ \A r \in m :
                 /\ r.qty > q =>
                      /\ res'.exc = "none"
                      /\ inventory' = (inventory \ {r}) \cup {[r EXCEPT !.qty = r.qty - q]}
                 /\ r.qty = q =>
                      /\ res'.exc = "none"
                      /\ inventory' = inventory \ {r}
                 /\ r.qty < q =>
                      /\ res'.exc = "ValueError"
                      /\ inventory' = inventory
      ]_vars

RemovedWholeStack ==
    /\ res.op = "remove" /\ res.exc = "none" /\ res.qty > 0
    /\ res.existed /\ res.before = res.qty
    /\ ~Exists(inventory, res.owner, res.item)

\* C5: an add or remove with qty <= 0 is refused and writes nothing.
NonPositiveQtyRejected ==
    [][(res'.op \in {"add", "remove"} /\ res'.qty <= 0) =>
        (res'.exc # "none" /\ inventory' = inventory)]_vars

----------------------------------------------------------------------------
(* Crafting: one user uses blueprints, under every catalog and from every  *)
(* stocked inventory                                                       *)

Crafter == "u1"

\* the table of a user who holds qb blueprints, qx units of x and qy of y;
\* the rows have the primary keys 1, 2, ... in this order
Stock(qb, qx, qy) ==
    LET ib == IF qb > 0 THEN 1 ELSE 0
        ix == ib + (IF qx > 0 THEN 1 ELSE 0)
        iy == ix + (IF qy > 0 THEN 1 ELSE 0)
    IN  (IF qb > 0 THEN {[id |-> ib, owner |-> Crafter, item |-> "bp", qty |-> qb]} ELSE {})
        \cup (IF qx > 0 THEN {[id |-> ix, owner |-> Crafter, item |-> "x", qty |-> qx]} ELSE {})
        \cup (IF qy > 0 THEN {[id |-> iy, owner |-> Crafter, item |-> "y", qty |-> qy]} ELSE {})

CraftTables == {Stock(qb, qx, qy) : qb \in 0..1, qx \in 0..MaxStack, qy \in 0..MaxStack}

InitCraft ==
    /\ inventory \in CraftTables
    /\ nextId = Cardinality(inventory) + 1
    /\ blueprint_info \in {{[item |-> "bp", build |-> b]} : b \in Materials}
    /\ requirements \in ReqLists
    /\ res = [op |-> "none"]
    /\ VotesIdle
    /\ MailIdle
    /\ FriendsIdle
    /\ ProcsIdle
    /\ inv0 = inventory

NextCraft == \E bp \in Items : Craft(Crafter, bp)

SpecCraft == InitCraft /\ [][NextCraft]_vars

\* the units of item i that the requirement list rs asks for
RECURSIVE Needed(_, _)
Needed(rs, i) ==
    IF rs = <<>> THEN 0
    ELSE (IF Head(rs).item = i THEN Head(rs).qty ELSE 0) + Needed(Tail(rs), i)

\* C1: a craft either returns, having taken every requirement quantity and
\* added one unit of the built item, or raises and leaves the inventory as
\* it was.
CraftAllOrNothing ==
    [][res'.op = "craft" =>
        LET o == res'.owner
            rs == RequirementsOf(requirements, res'.item)
        IN  \/ /\ res'.exc = "none"
               /\ \E b \in blueprint_info :
                     /\ b.item = res'.item
                     /\ \A i \in Items :
                          StackQty(inventory', o, i) =
                              StackQty(inventory, o, i) - Needed(rs, i)
                              + (IF i = b.build THEN 1 ELSE 0)
            \/ /\ res'.exc # "none"
               /\ inventory' = inventory
      ]_vars

\* C17: a craft by an owner without a stack of the blueprint item raises
\* "Blueprint not in inventory" and writes nothing; a craft that returns
\* leaves the owner's stack of the blueprint item as it was.
BlueprintNeededNotConsumed ==
    [][res'.op = "craft" =>
        LET o == res'.owner
            bp == res'.item
        IN  /\ ~Exists(inventory, o, bp) =>
                  /\ res'.exc = "BlueprintNotInInventory"
                  /\ inventory' = inventory
            /\ res'.exc = "none" =>
                  /\ Exists(inventory, o, bp)
                  /\ Matching(inventory', o, bp) = Matching(inventory, o, bp)
      ]_vars

CraftedWithBlueprintKept ==
    /\ res.op = "craft" /\ res.exc = "none" /\ res.removed > 0
    /\ StackQty(inventory, res.owner, res.item) = 1
    /\ StackQty(inv0, res.owner, res.item) = 1

\* the requirement list names no item twice
DistinctItems(rs) ==
    \A a, b \in 1..Len(rs) : rs[a].item = rs[b].item => a = b

\* C19: with requirements on pairwise distinct items, a craft by an owner
\* who holds the blueprint and at least the required quantity of every
\* requirement returns without raising, having taken exactly the required
\* quantity of every requirement and added one unit of the built item.
VerifiedCraftCompletes ==
    [][res'.op = "craft" =>
        LET o == res'.owner
            bp == res'.item
            rs == RequirementsOf(requirements, bp)
        IN  (/\ Exists(inventory, o, bp)
             /\ \E b \in blueprint_info : b.item = bp
             /\ DistinctItems(rs)
             /\ \A k \in 1..Len(rs) :
                   StackQty(inventory, o, rs[k].item) >= rs[k].qty)
            => /\ res'.exc = "none"
               /\ res'.removed = Len(rs)
               /\ \A b \in blueprint_info : b.item = bp =>
                     \A i \in Items :
                        StackQty(inventory', o, i) =
                            StackQty(inventory, o, i) - Needed(rs, i)
                            + (IF i = b.build THEN 1 ELSE 0)
      ]_vars

CraftedFromTwoItems ==
    /\ res.op = "craft" /\ res.exc = "none" /\ res.removed = 2
    /\ DistinctItems(RequirementsOf(requirements, res.item))
    /\ \E i \in Materials : ~Exists(inventory, res.owner, i)

----------------------------------------------------------------------------
(* Concurrent requests on one inventory row.  add_inv_item and             *)
(* remove_inv_item read the row with get() and write it back with save(),  *)
(* delete() or create(); another request can run between the two           *)
(* statements.                                                             *)

Requests == {"r1", "r2"}
Calls == [op : {"add", "remove"}, owner : {"u1"}, item : {"x"}, qty : 1..MaxQty]

\* the tables the requests can find: no stack of the item, or one
StartTables ==
    {{}} \cup {{[id |-> 1, owner |-> "u1", item |-> "x", qty |-> q]} : q \in 1..MaxQty}

InitRMW ==
    /\ inventory \in StartTables
    /\ nextId = 2
    /\ blueprint_info = {}
    /\ requirements = <<>>
    /\ res = [op |-> "none"]
    /\ VotesIdle
    /\ MailIdle
    /\ FriendsIdle
    /\ call \in [Requests -> Calls]
    /\ pc = [p \in Requests |-> "get"]
    /\ local = [p \in Requests |-> [status |-> "none"]]
    /\ inv0 = inventory

Finish(p, exc) ==
    /\ pc' = [pc EXCEPT ![p] = "done"]
    /\ local' = [local EXCEPT ![p] = [status |-> "done", exc |-> exc]]

\* stack = self.user.inventory.get(item_id=item_id)
ReadStack(p) ==
    /\ pc[p] = "get"
    /\ LET g == Get(inventory, call[p].owner, call[p].item) IN
       IF g.status = "ok" \/ (g.status = "DoesNotExist" /\ call[p].op = "add")
       THEN /\ pc' = [pc EXCEPT ![p] = "write"]
            /\ local' = [local EXCEPT ![p] = g]
       ELSE Finish(p, g.status)
    /\ UNCHANGED <<invVars, res, voteVars, call, inv0, mailVars, friendVars>>

\* stack.qty += qty; stack.save()  or  InventoryStack.objects.create(...)
AddWrite(p) ==
    /\ pc[p] = "write"
    /\ call[p].op = "add"
    /\ IF local[p].status = "ok"
       THEN /\ inventory' = Save(inventory,
                    [local[p].row EXCEPT !.qty = local[p].row.qty + call[p].qty])
            /\ nextId' = nextId
       ELSE /\ inventory' = Create(inventory, nextId, call[p].owner,
                                   call[p].item, call[p].qty)
            /\ nextId' = nextId + 1
    /\ Finish(p, "none")
    /\ UNCHANGED <<blueprint_info, requirements, res, voteVars, call, inv0, mailVars, friendVars>>

\* the if / elif / else of remove_inv_item, on the stack read before
RemoveWrite(p) ==
    /\ pc[p] = "write"
    /\ call[p].op = "remove"
    /\ LET row == local[p].row
           q == call[p].qty
       IN  IF row.qty > q
           THEN /\ inventory' = Save(inventory, [row EXCEPT !.qty = row.qty - q])
                /\ Finish(p, "none")
           ELSE IF row.qty = q
           THEN /\ inventory' = Delete(inventory, row)
                /\ Finish(p, "none")
           ELSE /\ inventory' = inventory
                /\ Finish(p, "ValueError")
    /\ UNCHANGED <<nextId, blueprint_info, requirements, res, voteVars, call, inv0, mailVars, friendVars>>

NextRMW ==
    \/ \E p \in Requests : ReadStack(p)
    \/ \E p \in Requests : AddWrite(p)
    \/ \E p \in Requests : RemoveWrite(p)

SpecRMW == InitRMW /\ [][NextRMW]_vars

\* one call executed alone
RunAlone(inv, nid, c) ==
    IF c.op = "add"
    THEN add_inv_item(inv, nid, c.owner, c.item, c.qty)
    ELSE remove_inv_item(inv, nid, c.owner, c.item, c.qty)

\* the tables the calls of the requests in S can leave when run one after the other
RECURSIVE SerialOutcomes(_, _, _)
SerialOutcomes(inv, nid, S) ==
    IF S = {} THEN {inv}
    ELSE UNION {LET r == RunAlone(inv, nid, call[p])
                IN  SerialOutcomes(r.inv, r.nid, S \ {p}) : p \in S}

\* the stacks of a table without their primary keys
Stacks(inv) == {[owner |-> r.owner, item |-> r.item, qty |-> r.qty] : r \in inv}

SameStacks(a, b) == Cardinality(a) = Cardinality(b) /\ Stacks(a) = Stacks(b)

\* C6: when all concurrent add/remove calls have ended, the table is the one
\* some serial order of those calls leaves.
ConcurrentCallsSerialize ==
    (\A p \in DOMAIN pc : pc[p] = "done")
        => \E s \in SerialOutcomes(inv0, 2, DOMAIN pc) : SameStacks(inventory, s)

----------------------------------------------------------------------------
(* Concurrent use_blueprint requests of one user, one ORM statement per    *)
(* step.  use_blueprint opens no transaction: what a statement wrote stays *)
(* written when a later statement raises.                                  *)

Crafts == {"c1", "c2"}

\* the inventory of the user before the requests: the blueprint and up to
\* MaxReqQty units of each material
StockedTables == {Stock(1, qx, qy) : qx \in 0..MaxReqQty, qy \in 0..MaxReqQty}

InitTx ==
    /\ inventory \in StockedTables
    /\ nextId = Cardinality(inventory) + 1
    /\ blueprint_info \in {{[item |-> "bp", build |-> b]} : b \in Materials}
    /\ requirements \in ReqLists
    /\ res = [op |-> "none"]
    /\ VotesIdle
    /\ MailIdle
    /\ FriendsIdle
    /\ call = [p \in Crafts |-> [op |-> "craft", owner |-> Crafter, item |-> "bp"]]
    /\ pc = [p \in Crafts |-> "check"]
    /\ local = [p \in Crafts |->
                  [k |-> 1, stack |-> [status |-> "none"], removed |-> 0,
                   produced |-> FALSE, exc |-> "none"]]
    /\ inv0 = inventory

Reqs(p) == RequirementsOf(requirements, call[p].item)

Raise(p, exc) ==
    /\ pc' = [pc EXCEPT ![p] = "done"]
    /\ local' = [local EXCEPT ![p].exc = exc]

\* after requirement k of the remove loop: the next one, or the final add
AfterRemove(p, k) == IF k < Len(Reqs(p)) THEN "remove_get" ELSE "add_get"

\* if not self.user.inventory.filter(item_id=blueprint_id).exists(): raise
\* blueprint_info = BlueprintInfo.objects.get(item_id=blueprint_id)
CheckBlueprint(p) ==
    /\ pc[p] = "check"
    /\ IF ~Exists(inventory, call[p].owner, call[p].item)
       THEN Raise(p, "BlueprintNotInInventory")
       ELSE IF ~\E b \in blueprint_info : b.item = call[p].item
       THEN Raise(p, "DoesNotExist")
       ELSE /\ pc' = [pc EXCEPT ![p] =
                         IF Len(Reqs(p)) = 0 THEN "add_get" ELSE "verify"]
            /\ local' = local
    /\ UNCHANGED <<invVars, res, voteVars, call, inv0, mailVars, friendVars>>

\* one turn of the loop "verify that requirements are met"
Verify(p) ==
    /\ pc[p] = "verify"
    /\ LET k == local[p].k
           r == Reqs(p)[k]
       IN  IF ~ExistsGte(inventory, call[p].owner, r.item, r.qty)
           THEN Raise(p, "RequirementsNotMet")
           ELSE IF k < Len(Reqs(p))
           THEN /\ pc' = pc
                /\ local' = [local EXCEPT ![p].k = k + 1]
           ELSE /\ pc' = [pc EXCEPT ![p] = "remove_get"]
                /\ local' = [local EXCEPT ![p].k = 1]
    /\ UNCHANGED <<invVars, res, voteVars, call, inv0, mailVars, friendVars>>

\* remove_inv_item of requirement k: stack = self.user.inventory.get(...)
RemoveGet(p) ==
    /\ pc[p] = "remove_get"
    /\ LET r == Reqs(p)[local[p].k]
           g == Get(inventory, call[p].owner, r.item)
       IN  IF g.status = "ok"
           THEN /\ pc' = [pc EXCEPT ![p] = "remove_write"]
                /\ local' = [local EXCEPT ![p].stack = g]
           ELSE Raise(p, g.status)
    /\ UNCHANGED <<invVars, res, voteVars, call, inv0, mailVars, friendVars>>

\* remove_inv_item of requirement k: the if / elif / else on the stack read
RemoveSave(p) ==
    /\ pc[p] = "remove_write"
    /\ LET k == local[p].k
           q == Reqs(p)[k].qty
           row == local[p].stack.row
           next == [local EXCEPT ![p].k = k + 1, ![p].removed = k]
       IN  IF row.qty > q
           THEN /\ inventory' = Save(inventory, [row EXCEPT !.qty = row.qty - q])
                /\ pc' = [pc EXCEPT ![p] = AfterRemove(p, k)]
                /\ local' = next
           ELSE IF row.qty = q
           THEN /\ inventory' = Delete(inventory, row)
                /\ pc' = [pc EXCEPT ![p] = AfterRemove(p, k)]
                /\ local' = next
           ELSE /\ inventory' = inventory
                /\ Raise(p, "ValueError")
    /\ UNCHANGED <<nextId, blueprint_info, requirements, res, voteVars, call, inv0, mailVars, friendVars>>

BuildId(p) == (CHOOSE b \in blueprint_info : b.item = call[p].item).build

\* add_inv_item(blueprint_info.build_id): stack = self.user.inventory.get(...)
AddGet(p) ==
    /\ pc[p] = "add_get"
    /\ LET g == Get(inventory, call[p].owner, BuildId(p)) IN
       IF g.status \in {"ok", "DoesNotExist"}
       THEN /\ pc' = [pc EXCEPT ![p] = "add_write"]
            /\ local' = [local EXCEPT ![p].stack = g]
       ELSE Raise(p, g.status)
    /\ UNCHANGED <<invVars, res, voteVars, call, inv0, mailVars, friendVars>>

\* add_inv_item(blueprint_info.build_id): save() or create()
AddSave(p) ==
    /\ pc[p] = "add_write"
    /\ IF local[p].stack.status = "ok"
       THEN /\ inventory' = Save(inventory,
                    [local[p].stack.row EXCEPT !.qty = local[p].stack.row.qty + 1])
            /\ nextId' = nextId
       ELSE /\ inventory' = Create(inventory, nextId, call[p].owner, BuildId(p), 1)
            /\ nextId' = nextId + 1
    /\ pc' = [pc EXCEPT ![p] = "done"]
    /\ local' = [local EXCEPT ![p].produced = TRUE]
    /\ UNCHANGED <<blueprint_info, requirements, res, voteVars, call, inv0, mailVars, friendVars>>

NextTx ==
    \/ \E p \in Crafts : CheckBlueprint(p)
    \/ \E p \in Crafts : Verify(p)
    \/ \E p \in Crafts : RemoveGet(p)
    \/ \E p \in Crafts : RemoveSave(p)
    \/ \E p \in Crafts : AddGet(p)
    \/ \E p \in Crafts : AddSave(p)

SpecTx == InitTx /\ [][NextTx]_vars

\* C7: no use_blueprint call ends having taken requirements from the
\* inventory without having added the built item.
CraftNeverHalfApplied ==
    \A p \in DOMAIN pc :
        (pc[p] = "done" /\ local[p].removed > 0) => local[p].produced

----------------------------------------------------------------------------
(* Profile.update_available_votes.  Times are whole clock ticks, as a      *)
(* timedelta is whole microseconds; DAY is one day in ticks.               *)

DAY == 240
MaxRank == 2        \* ranks 0..MaxRank
MaxTime == 80       \* the clock stops here
MaxNowGap == 1      \* ticks that can pass between the two now() calls of one update

\* timedelta / int rounds the quotient to the nearest tick, a half to even
RoundHalfEven(a, b) ==
    LET q == a \div b
        r == a % b
    IN  IF 2 * r < b THEN q
        ELSE IF 2 * r > b THEN q + 1
        ELSE IF q % 2 = 0 THEN q ELSE q + 1

\* max_votes = 20 + 8 * self.rank
max_votes(rk) == 20 + 8 * rk

\* DAY / max_votes
Interval(rk) == RoundHalfEven(DAY, max_votes(rk))

Min(a, b) == IF a < b THEN a ELSE b

\* update_available_votes without the min(): the votes grow past max_votes
update_available_votes_uncapped(rk, votes, last, now1, now2) ==
    LET elapsed == now1 - last
        new_votes == elapsed \div Interval(rk)
        time_remainder == elapsed % Interval(rk)
    IN  IF new_votes > 0
        THEN [votes |-> votes + new_votes, last |-> now2 - time_remainder,
              new_votes |-> new_votes, time_remainder |-> time_remainder]
        ELSE [votes |-> votes, last |-> last,
              new_votes |-> new_votes, time_remainder |-> time_remainder]

\* update_available_votes with "new_votes > 1" where the code has "new_votes > 0"
update_available_votes_skips_one(rk, votes, last, now1, now2) ==
    LET elapsed == now1 - last
        new_votes == elapsed \div Interval(rk)
        time_remainder == elapsed % Interval(rk)
    IN  IF new_votes > 1
        THEN [votes |-> Min(votes + new_votes, max_votes(rk)),
              last |-> now2 - time_remainder,
              new_votes |-> new_votes, time_remainder |-> time_remainder]
        ELSE [votes |-> votes, last |-> last,
              new_votes |-> new_votes, time_remainder |-> time_remainder]

\* update_available_votes with "now()" where the code has "now() - time_remainder"
update_available_votes_drops_remainder(rk, votes, last, now1, now2) ==
    LET elapsed == now1 - last
        new_votes == elapsed \div Interval(rk)
        time_remainder == elapsed % Interval(rk)
    IN  IF new_votes > 0
        THEN [votes |-> Min(votes + new_votes, max_votes(rk)),
              last |-> now2,
              new_votes |-> new_votes, time_remainder |-> time_remainder]
        ELSE [votes |-> votes, last |-> last,
              new_votes |-> new_votes, time_remainder |-> time_remainder]

\* update_available_votes without the test "if new_votes > 0"
update_available_votes_always_writes(rk, votes, last, now1, now2) ==
    LET elapsed == now1 - last
        new_votes == elapsed \div Interval(rk)
        time_remainder == elapsed % Interval(rk)
    IN  IF new_votes >= 0
        THEN [votes |-> Min(votes + new_votes, max_votes(rk)),
              last |-> now2 - time_remainder,
              new_votes |-> new_votes, time_remainder |-> time_remainder]
        ELSE [votes |-> votes, last |-> last,
              new_votes |-> new_votes, time_remainder |-> time_remainder]

\* update_available_votes with "now() + time_remainder" where the code has "-"
update_available_votes_adds_remainder(rk, votes, last, now1, now2) ==
    LET elapsed == now1 - last
        new_votes == elapsed \div Interval(rk)
        time_remainder == elapsed % Interval(rk)
    IN  IF new_votes > 0
        THEN [votes |-> Min(votes + new_votes, max_votes(rk)),
              last |-> now2 + time_remainder,
              new_votes |-> new_votes, time_remainder |-> time_remainder]
        ELSE [votes |-> votes, last |-> last,
              new_votes |-> new_votes, time_remainder |-> time_remainder]

\* now1 is what now() returns on line 110, now2 what it returns on line 115
update_available_votes(rk, votes, last, now1, now2) ==
    LET elapsed == now1 - last
        new_votes == elapsed \div Interval(rk)
        time_remainder == elapsed % Interval(rk)
    IN  IF new_votes > 0
        THEN [votes |-> Min(votes + new_votes, max_votes(rk)),
              last |-> now2 - time_remainder,
              new_votes |-> new_votes, time_remainder |-> time_remainder]
        ELSE [votes |-> votes, last |-> last,
              new_votes |-> new_votes, time_remainder |-> time_remainder]

\* the votes a profile can hold when the model starts: the default of a new
\* profile, or none left
StartVotes == {0, 20}

InitVotes ==
    /\ inventory = {}
    /\ nextId = 1
    /\ blueprint_info = {}
    /\ requirements = <<>>
    /\ res = [op |-> "none"]
    /\ rank \in 0..MaxRank
    /\ available_votes \in StartVotes
    /\ last_vote_update_time = 0
    /\ clock = 0
    /\ start_votes = available_votes
    /\ start_time = 0
    /\ capped = (available_votes >= max_votes(rank))
    /\ ProcsIdle
    /\ MailIdle
    /\ FriendsIdle
    /\ inv0 = {}

Tick ==
    /\ clock < MaxTime
    /\ clock' = clock + 1
    /\ res' = [op |-> "tick"]
    /\ UNCHANGED <<invVars, rank, available_votes, last_vote_update_time,
                   start_votes, start_time, capped, procVars, mailVars, friendVars>>

Update(gap) ==
    LET u == update_available_votes(rank, available_votes, last_vote_update_time,
                                    clock, clock + gap)
    IN  /\ clock + gap <= MaxTime
        /\ available_votes' = u.votes
        /\ last_vote_update_time' = u.last
        /\ clock' = clock + gap
        /\ capped' = (capped \/ available_votes + u.new_votes >= max_votes(rank))
        /\ res' = [op |-> "update", now |-> clock, elapsed |-> clock - last_vote_update_time,
                   new_votes |-> u.new_votes, time_remainder |-> u.time_remainder,
                   before |-> available_votes]
        /\ UNCHANGED <<invVars, rank, start_votes, start_time, procVars, mailVars, friendVars>>

NextVotes ==
    \/ Tick
    \/ \E gap \in 0..MaxNowGap : Update(gap)

SpecVotes == InitVotes /\ [][NextVotes]_vars

\* C8: the available votes stay between 0 and 20 + 8 * rank.
VotesWithinCapacity ==
    /\ 0 <= available_votes
    /\ available_votes <= 20 + 8 * rank

VotesCutAtCapacity ==
    /\ res.op = "update"
    /\ res.new_votes > 1
    /\ res.before + res.new_votes > max_votes(rank)
    /\ available_votes = max_votes(rank)

\* C9: an update that credits votes sets last_vote_update_time to the time
\* it measured the elapsed time at, minus the remainder; and while the cap
\* was not reached the votes credited by all updates so far are the whole
\* intervals between the start and that time.
NoRegenerationTimeLost ==
    (res.op = "update" /\ ~capped) =>
        /\ res.new_votes > 0 =>
              last_vote_update_time = res.now - res.time_remainder
        /\ available_votes - start_votes =
              (res.now - start_time) \div Interval(rank)

\* C10 as claimed: an update after exactly one interval adds exactly one vote,
\* in every profile state, and leaves a remainder below one interval.
OneIntervalAddsOneVote ==
    (res.op = "update" /\ res.elapsed = Interval(rank)) =>
        /\ available_votes = res.before + 1
        /\ res.time_remainder < Interval(rank)

\* C10: an update after exactly one interval adds exactly one vote when the
\* profile is below 20 + 8 * rank votes and leaves it at that many when it
\* is not; the remainder it leaves is below one interval.
OneIntervalAddsOneVoteBelowCap ==
    (res.op = "update" /\ res.elapsed = Interval(rank)) =>
        /\ res.before < 20 + 8 * rank => available_votes = res.before + 1
        /\ res.before >= 20 + 8 * rank => available_votes = res.before
        /\ res.time_remainder < Interval(rank)
        /\ res.new_votes = 1

OneIntervalElapsed ==
    /\ res.op = "update"
    /\ res.elapsed = Interval(rank)
    /\ res.before < max_votes(rank)
    /\ available_votes = res.before + 1

UpdateWithoutNewVotesWritesNothing ==
    [][(res'.op = "update"
        /\ (clock - last_vote_update_time) \div Interval(rank) = 0) =>
            /\ available_votes' = available_votes
            /\ last_vote_update_time' = last_vote_update_time
      ]_vars

UpdatedTooEarly ==
    /\ res.op = "update"
    /\ res.new_votes = 0
    /\ res.elapsed > 0
    /\ clock > res.now
    /\ last_vote_update_time = res.now - res.elapsed
    /\ available_votes = res.before

\* C20: last_vote_update_time never moves backward and never lies after the
\* clock, and an update of a profile within its capacity never lowers
\* available_votes.
VoteClockMonotonic ==
    [][/\ last_vote_update_time' >= last_vote_update_time
       /\ last_vote_update_time' <= clock'
       /\ (res'.op = "update" /\ available_votes <= max_votes(rank))
             => available_votes' >= available_votes
      ]_vars

UpdateMovedForward ==
    /\ res.op = "update"
    /\ res.new_votes > 0
    /\ res.time_remainder > 0
    /\ last_vote_update_time > res.now - res.elapsed
    /\ last_vote_update_time <= clock
    /\ available_votes > res.before

\* ---------------------------------------------------------------------
\* Messages and attachments
\* ---------------------------------------------------------------------

\* a new Message row: is_read = models.BooleanField(default=False)
MessageRow(id, s, r) ==
    [id |-> id, sender |-> s, recipient |-> r, is_read |-> FALSE]

\* a new Attachment row: a Stack (item, qty) with a foreign key to its message
AttachmentRow(id, m, i, q) == [id |-> id, message |-> m, item |-> i, qty |-> q]

\* message.attachments (related_name="attachments")
AttachmentsOf(atts, m) == {a \in atts : a.message = m}

\* Attachment.message with on_delete=DO_NOTHING
Cascade_does_nothing(atts, m) == atts

\* Attachment.message has on_delete=models.CASCADE: deleting message m
\* deletes the attachments that point to it
Cascade(atts, m) == atts \ AttachmentsOf(atts, m)

\* the ownership check of open, delete and detachAttachments
OwnershipCheck(msgs, u, m) ==
    LET found == {r \in msgs : r.id = m} IN
    IF found = {} THEN "MessageNotFound"
    ELSE IF \E r \in found : r.recipient # u THEN "Forbidden"
    ELSE "none"

\* the attachment a send can carry: none, or an item with a quantity
NoAttachment == [item |-> "none", qty |-> 0]
AttChoices == {NoAttachment} \cup [item : Materials, qty : 1..MaxQty]

\* send: a Message with read = false and at most one Attachment bound to it;
\* the sender's inventory is not touched
send_message(msgs, atts, mid, aid, s, r, att) ==
    [msgs |-> msgs \cup {MessageRow(mid, s, r)},
     atts |-> IF att = NoAttachment THEN atts
              ELSE atts \cup {AttachmentRow(aid, mid, att.item, att.qty)},
     mid |-> mid + 1,
     aid |-> IF att = NoAttachment THEN aid ELSE aid + 1]

\* open that flips the read flag
open_message_toggles(msgs, u, m) ==
    LET exc == OwnershipCheck(msgs, u, m) IN
    IF exc # "none" THEN [msgs |-> msgs, exc |-> exc]
    ELSE [msgs |-> {IF r.id = m THEN [r EXCEPT !.is_read = ~r.is_read] ELSE r : r \in msgs},
          exc |-> "none"]

\* open: MessageNotFound, Forbidden, or read = true
open_message(msgs, u, m) ==
    LET exc == OwnershipCheck(msgs, u, m) IN
    IF exc # "none" THEN [msgs |-> msgs, exc |-> exc]
    ELSE [msgs |-> {IF r.id = m THEN [r EXCEPT !.is_read = TRUE] ELSE r : r \in msgs},
          exc |-> "none"]

\* delete: the ownership check, then the message goes and its attachments
\* with it
delete_message(msgs, atts, u, m) ==
    LET exc == OwnershipCheck(msgs, u, m) IN
    IF exc # "none" THEN [msgs |-> msgs, atts |-> atts, exc |-> exc]
    ELSE [msgs |-> {r \in msgs : r.id # m}, atts |-> Cascade(atts, m), exc |-> "none"]

\* for each attachment in S, lowest primary key first: add it to the
\* inventory of u, then delete it; the first exception ends the loop
RECURSIVE DetachEach(_, _, _, _, _)
DetachEach(atts, inv, nid, u, S) ==
    IF S = {} THEN [atts |-> atts, inv |-> inv, nid |-> nid, exc |-> "none"]
    ELSE LET a == CHOOSE x \in S : \A y \in S : x.id <= y.id
             r == add_inv_item(inv, nid, u, a.item, a.qty)
         IN  IF r.exc # "none"
             THEN [atts |-> atts, inv |-> inv, nid |-> nid, exc |-> r.exc]
             ELSE DetachEach(atts \ {a}, r.inv, r.nid, u, S \ {a})

\* detachAttachments: the ownership check, then every attachment of the
\* message moves into the inventory of the user; a failure rolls all back
detach_attachments(msgs, atts, inv, nid, u, m) ==
    LET exc == OwnershipCheck(msgs, u, m) IN
    IF exc # "none" THEN [atts |-> atts, inv |-> inv, nid |-> nid, exc |-> exc]
    ELSE LET r == DetachEach(atts, inv, nid, u, AttachmentsOf(atts, m)) IN
         IF r.exc # "none"
         THEN [atts |-> atts, inv |-> inv, nid |-> nid, exc |-> r.exc]
         ELSE r

MsgIds == 1..MaxMsgs

Send(s, r, att) ==
    /\ nextMsgId <= MaxMsgs
    /\ LET x == send_message(messages, attachments, nextMsgId, nextAttId, s, r, att) IN
       /\ messages' = x.msgs
       /\ attachments' = x.atts
       /\ nextMsgId' = x.mid
       /\ nextAttId' = x.aid
    /\ res' = [op |-> "send", user |-> s, msg |-> nextMsgId, exc |-> "none"]
    /\ UNCHANGED <<invVars, voteVars, procVars, friendVars>>

Open(u, m) ==
    /\ LET x == open_message(messages, u, m) IN
       /\ messages' = x.msgs
       /\ res' = [op |-> "open", user |-> u, msg |-> m, exc |-> x.exc,
                  was_read |-> \E r \in messages : r.id = m /\ r.is_read]
    /\ UNCHANGED <<attachments, nextMsgId, nextAttId>>
    /\ UNCHANGED <<invVars, voteVars, procVars, friendVars>>

DeleteMessage(u, m) ==
    /\ LET x == delete_message(messages, attachments, u, m) IN
       /\ messages' = x.msgs
       /\ attachments' = x.atts
       /\ res' = [op |-> "delete", user |-> u, msg |-> m, exc |-> x.exc,
                  count |-> Cardinality(AttachmentsOf(attachments, m))]
    /\ UNCHANGED <<nextMsgId, nextAttId>>
    /\ UNCHANGED <<invVars, voteVars, procVars, friendVars>>

Detach(u, m) ==
    /\ LET x == detach_attachments(messages, attachments, inventory, nextId, u, m) IN
       /\ Bounded(x.inv, x.nid)
       /\ attachments' = x.atts
       /\ inventory' = x.inv
       /\ nextId' = x.nid
       /\ res' = [op |-> "detach", user |-> u, msg |-> m, exc |-> x.exc,
                  count |-> Cardinality(AttachmentsOf(attachments, m)),
                  again |-> /\ res.op = "detach" /\ res.exc = "none"
                            /\ res.user = u /\ res.msg = m /\ res.count > 0]
    /\ UNCHANGED <<messages, nextMsgId, nextAttId>>
    /\ UNCHANGED <<blueprint_info, requirements, voteVars, procVars, friendVars>>

NextMail ==
    \/ \E s, r \in Users, att \in AttChoices : s # r /\ Send(s, r, att)
    \/ \E u \in Users, m \in MsgIds : Open(u, m)
    \/ \E u \in Users, m \in MsgIds : DeleteMessage(u, m)
    \/ \E u \in Users, m \in MsgIds : Detach(u, m)

\* the inventories a run can start from: empty, or u2 holding a stack of x
MailStartTables ==
    {{}} \cup {{[id |-> 1, owner |-> "u2", item |-> "x", qty |-> q]} : q \in 1..MaxQty}

InitMail ==
    /\ inventory \in MailStartTables
    /\ nextId = Cardinality(inventory) + 1
    /\ blueprint_info = {}
    /\ requirements = <<>>
    /\ res = [op |-> "none"]
    /\ VotesIdle
    /\ MailIdle
    /\ FriendsIdle
    /\ ProcsIdle
    /\ inv0 = inventory

SpecMail == InitMail /\ [][NextMail]_vars

\* the units of item i among the attachments in S
AttQty(S, i) == SumQty({a \in S : a.item = i})

\* C12: a detach by the recipient adds each attachment's quantity to the
\* user's stack of its item and removes the attachment; a detach of a message
\* without attachments raises nothing and leaves the inventory as it is; a
\* rejected detach changes nothing.
DetachCreditsOnce ==
    [][res'.op = "detach" =>
        LET u == res'.user
            m == res'.msg
            atts == AttachmentsOf(attachments, m)
        IN  /\ (OwnershipCheck(messages, u, m) = "none") = (res'.exc = "none")
            /\ res'.exc = "none" =>
                  /\ attachments' = attachments \ atts
                  /\ AttachmentsOf(attachments', m) = {}
                  /\ \A o \in Users, i \in Items :
                        StackQty(inventory', o, i) =
                            StackQty(inventory, o, i) + (IF o = u THEN AttQty(atts, i) ELSE 0)
                  /\ atts = {} => inventory' = inventory
            /\ res'.exc # "none" =>
                  /\ attachments' = attachments
                  /\ inventory' = inventory
      ]_vars

DetachedTwice ==
    /\ res.op = "detach"
    /\ res.exc = "none"
    /\ res.again
    /\ res.count = 0
    /\ \E i \in Materials : /\ StackQty(inv0, res.user, i) > 0
                            /\ StackQty(inventory, res.user, i) > StackQty(inv0, res.user, i) + 1

\* C15: open fails MessageNotFound for a missing message and Forbidden for a
\* user who is not the recipient, changing nothing; otherwise the message is
\* read afterwards and nothing else changes, so opening a read message changes
\* nothing; no step takes a read flag from true to false.
OpenMarksRead ==
    [][/\ res'.op = "open" =>
            LET u == res'.user
                found == {r \in messages : r.id = res'.msg}
            IN  /\ attachments' = attachments
                /\ inventory' = inventory
                /\ found = {} => res'.exc = "MessageNotFound" /\ messages' = messages
                /\ (\E r \in found : r.recipient # u) =>
                        res'.exc = "Forbidden" /\ messages' = messages
                /\ (\E r \in found : r.recipient = u) =>
                        /\ res'.exc = "none"
                        /\ messages' = (messages \ found) \cup
                                          {[r EXCEPT !.is_read = TRUE] : r \in found}
                        /\ (\A r \in found : r.is_read) => messages' = messages
       /\ \A r \in messages : \A n \in messages' :
            (r.is_read /\ n.id = r.id) => n.is_read
      ]_vars

OpenedAgain ==
    /\ res.op = "open"
    /\ res.exc = "none"
    /\ res.was_read
    /\ \E r \in messages : r.id = res.msg /\ r.is_read /\ r.recipient = res.user

\* every attachment points to a message of the table
NoOrphanAttachment == \A a \in attachments : \E r \in messages : r.id = a.message

Profiles == {"u1", "u2", "u3"}
FriendOps == {"sendRequest", "accept", "block"}

\* the Friendship rows from a to b; the model declares no uniqueness over
\* (from_profile, to_profile)
EdgesOf(fs, a, b) == {r \in fs : r.from_profile = a /\ r.to_profile = b}

\* get_or_none(Friendship, from_profile=a, to_profile=b): get() with
\* ObjectDoesNotExist turned into None
EdgeGet(fs, a, b) ==
    LET m == EdgesOf(fs, a, b) IN
    IF m = {} THEN [status |-> "None"]
    ELSE IF Cardinality(m) = 1 THEN [status |-> "ok", row |-> CHOOSE r \in m : TRUE]
    ELSE [status |-> "MultipleObjectsReturned"]

\* the status a reader finds for the ordered pair: NONE when there is no row
EdgeStatus(g) == IF g.status = "ok" THEN g.row.status ELSE "NONE"

\* what a call reads: the edge of its own pair and the edge of the reverse pair
FriendView(fs, a, b) == [ab |-> EdgeGet(fs, a, b), ba |-> EdgeGet(fs, b, a)]

\* sendRequest without the test of the reverse edge for BLOCKED
friend_decide_ignores_block(op, view) ==
    LET ab == EdgeStatus(view.ab)
        ba == EdgeStatus(view.ba)
    IN  IF view.ab.status = "MultipleObjectsReturned" \/ view.ba.status = "MultipleObjectsReturned"
        THEN [exc |-> "MultipleObjectsReturned", status |-> "NONE"]
        ELSE IF op = "sendRequest"
        THEN IF ab = "FRIEND" \/ ba = "FRIEND" THEN [exc |-> "AlreadyFriends", status |-> "NONE"]
             ELSE IF ab = "PENDING" THEN [exc |-> "InvitationAlreadyExists", status |-> "NONE"]
             ELSE [exc |-> "none", status |-> "PENDING"]
        ELSE IF op = "accept"
        THEN IF ab # "PENDING" THEN [exc |-> "InvitationNotFound", status |-> "NONE"]
             ELSE [exc |-> "none", status |-> "FRIEND"]
        ELSE [exc |-> "none", status |-> "BLOCKED"]

\* the outcome of a call on what it read: an error, or the status to write
\* on the edge (a, b)
friend_decide(op, view) ==
    LET ab == EdgeStatus(view.ab)
        ba == EdgeStatus(view.ba)
    IN  IF view.ab.status = "MultipleObjectsReturned" \/ view.ba.status = "MultipleObjectsReturned"
        THEN [exc |-> "MultipleObjectsReturned", status |-> "NONE"]
        ELSE IF op = "sendRequest"
        THEN IF ba = "BLOCKED" THEN [exc |-> "YouAreBlocked", status |-> "NONE"]
             ELSE IF ab = "FRIEND" \/ ba = "FRIEND" THEN [exc |-> "AlreadyFriends", status |-> "NONE"]
             ELSE IF ab = "PENDING" THEN [exc |-> "InvitationAlreadyExists", status |-> "NONE"]
             ELSE [exc |-> "none", status |-> "PENDING"]
        ELSE IF op = "accept"
        THEN IF ab # "PENDING" THEN [exc |-> "InvitationNotFound", status |-> "NONE"]
             ELSE [exc |-> "none", status |-> "FRIEND"]
        ELSE [exc |-> "none", status |-> "BLOCKED"]

\* the write of an upsert on the row read before: save() of that row when
\* there was one, a new Friendship row when there was none
friend_write(fs, nid, g, a, b, st) ==
    IF g.status = "ok"
    THEN [fs |-> Save(fs, [g.row EXCEPT !.status = st]), nid |-> nid]
    ELSE [fs |-> fs \cup {[id |-> nid, from_profile |-> a, to_profile |-> b, status |-> st]},
          nid |-> nid + 1]

\* one call run alone: read, decide, write
friend_call(fs, nid, op, a, b) ==
    LET view == FriendView(fs, a, b)
        d == friend_decide(op, view)
    IN  IF d.exc # "none" THEN [fs |-> fs, nid |-> nid, exc |-> d.exc]
        ELSE LET w == friend_write(fs, nid, view.ab, a, b, d.status)
             IN  [fs |-> w.fs, nid |-> w.nid, exc |-> "none"]

FriendCall(op, a, b) ==
    /\ a # b
    /\ LET x == friend_call(friendships, nextEdgeId, op, a, b) IN
       /\ x.nid <= MaxEdges + 1
       /\ friendships' = x.fs
       /\ nextEdgeId' = x.nid
       /\ res' = [op |-> op, from |-> a, to |-> b, exc |-> x.exc]
    /\ UNCHANGED <<invVars, voteVars, procVars, mailVars>>

SendRequest(a, b) == FriendCall("sendRequest", a, b)

Accept(a, b) == FriendCall("accept", a, b)

Block(a, b) == FriendCall("block", a, b)

NextFriends ==
    \/ \E a, b \in Profiles : SendRequest(a, b)
    \/ \E a, b \in Profiles : Accept(a, b)
    \/ \E a, b \in Profiles : Block(a, b)

SpecFriends == Init /\ [][NextFriends]_vars

\* C13: sendRequest(a, b) while the edge (b, a) is BLOCKED fails with
\* YouAreBlocked and leaves the edges of (a, b), and every other edge, as
\* they were.
BlockedRequestRejected ==
    [][(/\ res'.op = "sendRequest"
        /\ \E r \in EdgesOf(friendships, res'.to, res'.from) : r.status = "BLOCKED")
       => /\ res'.exc = "YouAreBlocked"
          /\ EdgesOf(friendships', res'.from, res'.to) = EdgesOf(friendships, res'.from, res'.to)
          /\ friendships' = friendships
      ]_vars

RequestToBlocker ==
    /\ res.op = "sendRequest"
    /\ res.exc = "YouAreBlocked"
    /\ \E r \in EdgesOf(friendships, res.to, res.from) : r.status = "BLOCKED"
    /\ \E r \in EdgesOf(friendships, res.from, res.to) : r.status = "FRIEND"

\* ---------------------------------------------------------------------
\* Concurrent friendship calls: each call reads, then writes
\* ---------------------------------------------------------------------

FriendCalls ==
    {c \in [op : FriendOps, from : {"u1", "u2"}, to : {"u1", "u2"}] : c.from # c.to}

\* the tables the calls can find: no edge, or one edge from u1 to u2
FriendStartTables ==
    {{}} \cup {{[id |-> 1, from_profile |-> "u1", to_profile |-> "u2", status |-> st]} :
                 st \in {"PENDING", "FRIEND", "BLOCKED"}}

InitFriendRace ==
    /\ inventory = {}
    /\ nextId = 1
    /\ blueprint_info = {}
    /\ requirements = <<>>
    /\ res = [op |-> "none"]
    /\ VotesIdle
    /\ MailIdle
    /\ friendships \in FriendStartTables
    /\ nextEdgeId = 2
    /\ call \in [Requests -> FriendCalls]
    /\ pc = [p \in Requests |-> "get"]
    /\ local = [p \in Requests |-> [status |-> "none"]]
    /\ inv0 = {}

\* the reads of a call and its checks
FriendRead(p) ==
    /\ pc[p] = "get"
    /\ LET view == FriendView(friendships, call[p].from, call[p].to)
           d == friend_decide(call[p].op, view)
       IN  IF d.exc # "none" THEN Finish(p, d.exc)
           ELSE /\ pc' = [pc EXCEPT ![p] = "write"]
                /\ local' = [local EXCEPT ![p] = [status |-> "read", ab |-> view.ab,
                                                  new |-> d.status]]
    /\ UNCHANGED <<invVars, res, voteVars, call, inv0, mailVars, friendVars>>

\* the write of a call, on the row it read
FriendWrite(p) ==
    /\ pc[p] = "write"
    /\ LET w == friend_write(friendships, nextEdgeId, local[p].ab,
                             call[p].from, call[p].to, local[p].new)
       IN  /\ friendships' = w.fs
           /\ nextEdgeId' = w.nid
    /\ Finish(p, "none")
    /\ UNCHANGED <<invVars, res, voteVars, call, inv0, mailVars>>

NextFriendRace ==
    \/ \E p \in Requests : FriendRead(p)
    \/ \E p \in Requests : FriendWrite(p)

SpecFriendRace == InitFriendRace /\ [][NextFriendRace]_vars

====
